---- MODULE Spec2Model ----
(***************************************************************************)
(* Waste-management web application: the guidance catalog, the generation  *)
(* of guidance images on disk, the guidance lookup and the classification  *)
(* adapter (src/guidance.py, src/app.py).                                  *)
(*                                                                         *)
(* Strings that the code takes apart or puts together (category names,     *)
(* file paths, URLs) are sequences of tokens: a word, a blank " ", a       *)
(* separator "/", a suffix.  Probabilities are in hundredths (0.05 is 5).  *)
(***************************************************************************)
EXTENDS Integers, Sequences, FiniteSets, TLC

VARIABLES
    folder_exists,               \* os.path.exists(static/guidance)
    fs,                          \* the files of static/guidance: path -> image
    saved,                       \* the paths img.save has written, in order
    renders,                     \* the images rendered by the last _generate_guidance_images call
    pc,                          \* start-up position: <<stage, next index into waste_types>>
    waste_classification_model,  \* app.py's global: "model" or "None"
    guidance_data,               \* instance -> (category -> record): each WasteGuidance's self.guidance_data
    request,                     \* the request being answered
    response,                    \* the answer of the last handler
    calls,                       \* what the last classify_waste call did, in order
    wrap_words,                  \* step_text.split(), each word by its measured width, and the width of a blank
    wrap_lines,                  \* the lines of the word wrap
    bar_args,                    \* <<step_num, total_steps>>
    bar_width,                   \* progress_width
    gen                          \* instance -> where its ensure_guidance_images stands, when two run interleaved

vars == <<folder_exists, fs, saved, renders, pc, waste_classification_model,
          guidance_data, request, response, calls,
          wrap_words, wrap_lines, bar_args, bar_width, gen>>

startup_vars == <<folder_exists, fs, saved, renders, pc>>
serve_vars == <<waste_classification_model, guidance_data, request, response, calls>>
wrap_vars == <<wrap_words, wrap_lines>>
bar_vars == <<bar_args, bar_width>>
race_vars == <<gen>>

-----------------------------------------------------------------------------
(* Bounds of the model. *)

\* how many categories of the literal table the model keeps
NumCats == 4

\* in how many categories the guidance directory may hold files before start-up
MaxDirtyCats == 1

\* the longest step text of the word wrap, in words
MaxWords == 4

\* the largest total_steps of the progress bar
MaxTotalSteps == 6

-----------------------------------------------------------------------------
(* Program constants. *)

\* width of the step canvas: width, height = 600, 300
width == 600

-----------------------------------------------------------------------------
(* Python values. *)

NoneValue == [NoneType |-> TRUE]

\* truth value of `guidance` in `if not guidance` and `guidance or {}`
Truthy(x) == x # NoneValue /\ DOMAIN x # {}

\* d[k] = v on a dict
SetItem(d, k, v) == [x \in DOMAIN d \cup {k} |-> IF x = k THEN v ELSE d[x]]

Range(s) == {s[i] : i \in DOMAIN s}

-----------------------------------------------------------------------------
(* The literal table of _initialize_guidance_data. *)

Palettes ==
    <<  <<"#E63946", "#F1FAEE", "#A8DADC", "#457B9D", "#1D3557">>,
        <<"#2B2D42", "#8D99AE", "#EDF2F4", "#EF233C", "#D90429">>,
        <<"#CDDAFD", "#DFE7FD", "#F0EFEB", "#D7E3FC", "#CCDBFD">>,
        <<"#FF9F1C", "#FFBF69", "#FFFFFF", "#CBF3F0", "#2EC4B6">>,
        <<"#5F0F40", "#9A031E", "#FB8B24", "#E36414", "#0F4C5C">>,
        <<"#606C38", "#283618", "#FEFAE0", "#DDA15E", "#BC6C25">>,
        <<"#003049", "#D62828", "#F77F00", "#FCBF49", "#EAE2B7">>,
        <<"#EDEDE9", "#D6CCC2", "#F5EBE0", "#E3D5CA", "#D5BDAF">>,
        <<"#006466", "#065A60", "#0B525B", "#144552", "#1B3A4B">>,
        <<"#F72585", "#7209B7", "#3A0CA3", "#4361EE", "#4CC9F0">>  >>

StepTexts ==
    <<  <<"Separate fluids (oil, coolant, brake fluid) into appropriate containers",
          "Take batteries to authorized recycling centers",
          "Recycle metal components at scrap yards",
          "Dispose of tires at tire recycling facilities">>,
        <<"Remove batteries and recycle separately",
          "Take to e-waste recycling centers",
          "Consider manufacturer take-back programs",
          "Erase personal data before disposal">>,
        <<"Rinse containers to remove residue",
          "Sort by color (clear, green, brown)",
          "Remove metal or plastic caps and lids",
          "Take to glass recycling dropoff points">>,
        <<"Keep in original labeled containers",
          "Never mix different hazardous materials",
          "Store away from heat and children",
          "Take to hazardous waste collection facilities">>,
        <<"Separate ferrous (magnetic) from non-ferrous metals",
          "Clean off food residue",
          "Flatten or crush containers to save space",
          "Take to scrap yards or recycling centers">>,
        <<"Separate from non-compostable items",
          "Collect in compost bin with ventilation",
          "Layer with brown materials (leaves, paper)",
          "Use in garden or send to municipal composting">>,
        <<"Check if material has recycling symbol",
          "Research local guidelines for mixed materials",
          "Contact waste authority for special disposal",
          "Consider creative reuse options">>,
        <<"Remove plastic wrapping, tape, and metal fasteners",
          "Sort by type (cardboard, newspaper, mixed paper)",
          "Keep dry and clean",
          "Bundle or place in paper recycling bins">>,
        <<"Check recycling number (1-7) on bottom",
          "Rinse containers to remove residue",
          "Remove labels when possible",
          "Compress to save space in recycling bin">>,
        <<"Donate clean, wearable items to charity",
          "Repurpose damaged textiles as rags",
          "Take to textile recycling collection points",
          "Check with retailers for take-back programs">>  >>

\* the icon glyphs, by code point
Icons ==
    <<"U+1F697", "U+1F4BB", "U+1F95B", "U+26A0 U+FE0F", "U+1F527",
      "U+1F34E", "U+2753", "U+1F4C4", "U+2673", "U+1F455">>

\* the keys of the table, in the order of the literal
TableKeys ==
    <<  <<"Automobile", " ", "Waste">>,
        <<"Electronic", " ", "Waste">>,
        <<"Glass", " ", "Waste">>,
        <<"Hazardous", " ", "Waste">>,
        <<"Metal", " ", "Waste">>,
        <<"Organic", " ", "Waste">>,
        <<"Other">>,
        <<"Paper", " ", "Waste">>,
        <<"Plastic", " ", "Waste">>,
        <<"Textile", " ", "Waste">>  >>

\* The model keeps the last NumCats entries of the table, in the table's order.
KeptFrom == Len(TableKeys) - NumCats

\* _get_waste_types: list(self._initialize_guidance_data().keys())
waste_types == [i \in 1..NumCats |-> TableKeys[KeptFrom + i]]

\* _initialize_guidance_data: a fresh dict of fresh records
InitialGuidanceData ==
    [k \in Range(waste_types) |->
        LET n == CHOOSE i \in 1..Len(TableKeys) : TableKeys[i] = k
        IN  [steps |-> StepTexts[n], colors |-> Palettes[n], icon |-> Icons[n]]]

\* names a request may carry that are not keys of the table
UnknownNames ==
    {  <<"Plastic", "_", "Waste">>, <<"Nuclear", " ", "Waste">>, <<"other">>  }

RequestNames == Range(waste_types) \cup UnknownNames

-----------------------------------------------------------------------------
(* File names and URLs. *)

\* str.replace(" ", "_")
Replace(name) == [i \in DOMAIN name |-> IF name[i] = " " THEN "_" ELSE name[i]]

\* self.guidance_folder = os.path.join(static_folder, 'guidance'), static_folder = 'static'
guidance_folder == <<"static", "/", "guidance">>

\* base_filename = os.path.join(self.guidance_folder, waste_type.replace(" ", "_"))
base_filename(waste_type) == guidance_folder \o <<"/">> \o Replace(waste_type)

\* main_image_path = f"{base_filename}_main.png"
main_image_path(waste_type) == base_filename(waste_type) \o <<"_main.png">>

\* f"{base_filename}_step{i+1}.png", n = i+1
step_image_path_from_zero(waste_type, n) ==
    base_filename(waste_type) \o <<"_step", ToString(n - 1), ".png">>
step_image_path(waste_type, n) ==
    base_filename(waste_type) \o <<"_step", ToString(n), ".png">>

\* f'/static/guidance/{waste_type.replace(" ", "_")}_main.png'
main_image_url(waste_type) ==
    <<"/", "static", "/", "guidance", "/">> \o Replace(waste_type) \o <<"_main.png">>

\* f'/static/guidance/{waste_type.replace(" ", "_")}_step{i+1}.png', n = i+1
step_image_url(waste_type, n) ==
    <<"/", "static", "/", "guidance", "/">> \o Replace(waste_type)
        \o <<"_step", ToString(n), ".png">>

\* Flask serves the URL /static/<filename> from the file static/<filename>
StaticFile(url) == <<"static", "/">> \o SubSeq(url, 4, Len(url))

\* url_for('guidance.waste_guidance_view', waste_type=...): /guidance/<waste_type>,
\* the blank quoted
guidance_url(waste_type) ==
    <<"/", "guidance", "/">>
        \o [i \in DOMAIN waste_type |-> IF waste_type[i] = " " THEN "%20" ELSE waste_type[i]]

-----------------------------------------------------------------------------
(* The renderer: an image is what it was drawn from. *)

\* progress_width = int((step_num / total_steps) * (width - 100)), width = 600
\* (int truncates; the quotient is not negative, and the float product of the
\* code truncates to the same integer as the exact quotient)
progress_width_rounded(step_num, total_steps) ==
    (2 * step_num * (width - 100) + total_steps) \div (2 * total_steps)
progress_width(step_num, total_steps) ==
    (step_num * (width - 100)) \div total_steps

\* _create_main_guidance_image(waste_type, colors, icon)
MainImage(waste_type, colors, icon) ==
    [kind |-> "main", waste_type |-> waste_type, background |-> colors[1],
     text_fill |-> colors[3], icon |-> icon,
     bars |-> [i \in 0..4 |-> colors[(i % Len(colors)) + 1]]]

\* _create_step_guidance_image(step_text, step_num, total_steps, color, waste_type)
StepImage(step_text, step_num, total_steps, color, waste_type) ==
    [kind |-> "step", waste_type |-> waste_type, step_text |-> step_text,
     step_num |-> step_num, total_steps |-> total_steps, color |-> color,
     progress |-> progress_width(step_num, total_steps)]

\* a file that was in the directory before this process started
OldImage == [kind |-> "old"]

-----------------------------------------------------------------------------
(* Start-up: guidance.py constructs its WasteGuidance at import (line 291),  *)
(* app.py then loads the models and constructs its own (line 52).            *)

Instances == <<"guidance", "app">>

\* the stage of start-up that constructs an instance, and the stage after it
StageOf(inst) == IF inst = "guidance" THEN "guidance.py:291" ELSE "app.py:52"
StageAfter(inst) == IF inst = "guidance" THEN "app.py:43" ELSE "serving"

\* the images one call renders when the main image is missing, in order
RenderedImagesButLast(data, waste_type) ==
    LET guidance == data[waste_type]
        colors == guidance["colors"]
        steps == guidance["steps"]
    IN  <<[path |-> main_image_path(waste_type),
           img |-> MainImage(waste_type, colors, guidance["icon"])]>>
        \o [n \in 1..(Len(steps) - 1) |->
              [path |-> step_image_path(waste_type, n),
               img |-> StepImage(steps[n], n, Len(steps),
                                 colors[((n - 1) % Len(colors)) + 1], waste_type)]]
RenderedImages(data, waste_type) ==
    LET guidance == data[waste_type]
        colors == guidance["colors"]
        steps == guidance["steps"]
        icon == IF "icon" \in DOMAIN guidance THEN guidance["icon"] ELSE "U+267B U+FE0F"
    IN  <<[path |-> main_image_path(waste_type),
           img |-> MainImage(waste_type, colors, icon)]>>
        \o [n \in 1..Len(steps) |->
              [path |-> step_image_path(waste_type, n),
               img |-> StepImage(steps[n], n, Len(steps),
                                 colors[((n - 1) % Len(colors)) + 1], waste_type)]]

\* os.path.exists(main_image_path): the guard of _generate_guidance_images
MainAndStepsExist(files, waste_type) ==
    /\ main_image_path(waste_type) \in DOMAIN files
    /\ \A n \in 1..Len(InitialGuidanceData[waste_type]["steps"]) :
          step_image_path(waste_type, n) \in DOMAIN files
MainExists(files, waste_type) == main_image_path(waste_type) \in DOMAIN files

\* what one call of _generate_guidance_images renders and saves
ToSave(files, data, waste_type) ==
    IF MainExists(files, waste_type) THEN <<>> ELSE RenderedImages(data, waste_type)

\* the directory after img.save of each of `imgs`
SaveAll(files, imgs) ==
    [p \in DOMAIN files \cup {imgs[i].path : i \in DOMAIN imgs} |->
        IF \E i \in DOMAIN imgs : imgs[i].path = p
        THEN imgs[CHOOSE i \in DOMAIN imgs :
                    /\ imgs[i].path = p
                    /\ \A j \in DOMAIN imgs : imgs[j].path = p => j <= i].img
        ELSE files[p]]

\* __init__ up to ensure_folders_exist
ensure_folders_exist(inst) ==
    /\ pc = <<StageOf(inst), 0>>
    /\ guidance_data' = SetItem(guidance_data, inst, InitialGuidanceData)
    /\ folder_exists' = TRUE
    /\ pc' = <<StageOf(inst), 1>>
    /\ UNCHANGED <<fs, saved, renders, waste_classification_model,
                   request, response, calls, wrap_vars, bar_vars, race_vars>>

\* one turn of the loop of ensure_guidance_images: _generate_guidance_images(waste_type)
_generate_guidance_images(inst) ==
    /\ pc[1] = StageOf(inst)
    /\ pc[2] \in 1..Len(waste_types)
    /\ folder_exists
    /\ LET waste_type == waste_types[pc[2]]
           imgs == ToSave(fs, guidance_data[inst], waste_type)
       IN  /\ renders' = imgs
           /\ fs' = SaveAll(fs, imgs)
           /\ saved' = saved \o [i \in DOMAIN imgs |-> imgs[i].path]
    /\ pc' = IF pc[2] = Len(waste_types)
             THEN <<StageAfter(inst), 0>>
             ELSE <<pc[1], pc[2] + 1>>
    /\ UNCHANGED <<folder_exists, waste_classification_model, guidance_data,
                   request, response, calls, wrap_vars, bar_vars, race_vars>>

\* the try/except around tf.keras.models.load_model
LoadModels ==
    /\ pc = <<"app.py:43", 0>>
    /\ \/ waste_classification_model' = "model"
       \/ waste_classification_model' = "None"
    /\ pc' = <<"app.py:52", 0>>
    /\ UNCHANGED <<folder_exists, fs, saved, renders, guidance_data,
                   request, response, calls, wrap_vars, bar_vars, race_vars>>

\* the files a category may have in the directory: its main image and step images,
\* one of them beyond its last step (left by another version of the table)
FilesOf(waste_type) ==
    {main_image_path(waste_type)}
        \cup {step_image_path(waste_type, n) :
                n \in 1..(Len(InitialGuidanceData[waste_type]["steps"]) + 1)}

Idle ==
    /\ request = NoneValue
    /\ response = NoneValue
    /\ calls = <<>>
    /\ wrap_words = [words |-> <<>>, blank |-> 0]
    /\ wrap_lines = <<>>
    /\ bar_args = <<0, 1>>
    /\ bar_width = 0
    /\ gen = NoneValue

\* the process starts over any directory
InitStartup ==
    /\ pc = <<"guidance.py:291", 0>>
    /\ folder_exists \in BOOLEAN
    /\ \E dirty \in SUBSET Range(waste_types) :
          /\ Cardinality(dirty) <= MaxDirtyCats
          /\ folder_exists \/ dirty = {}
          /\ \E present \in SUBSET UNION {FilesOf(w) : w \in dirty} :
                /\ \A w \in dirty : present \cap FilesOf(w) # {}
                /\ fs = [p \in present |-> OldImage]
    /\ saved = <<>>
    /\ renders = <<>>
    /\ waste_classification_model = "unset"
    /\ guidance_data = [i \in {} |-> NoneValue]
    /\ Idle

NextStartup ==
    \/ \E inst \in Range(Instances) : ensure_folders_exist(inst)
    \/ \E inst \in Range(Instances) : _generate_guidance_images(inst)
    \/ LoadModels

SpecStartup == InitStartup /\ [][NextStartup]_vars

-----------------------------------------------------------------------------
(* Guidance lookup and the pages that use it. *)

\* WASTE_EDUCATION of constants.py, by its keys
WASTE_EDUCATION == [tips |-> 3, facts |-> 2, resources |-> 2]

\* get_guidance_for_waste_type on the dict `data`: the dict afterwards (the record
\* of waste_type is changed in place) and the value returned (that same record)
get_guidance_setdefault(data, waste_type) ==
    LET guidance == IF waste_type \in DOMAIN data
                    THEN data[waste_type]
                    ELSE [steps |-> <<>>]
        with_main == SetItem(guidance, "main_image", main_image_url(waste_type))
        with_steps ==
            SetItem(with_main, "step_images",
                    [n \in 1..Len(guidance["steps"]) |-> step_image_url(waste_type, n)])
    IN  [data |-> SetItem(data, waste_type, with_steps), ret |-> with_steps]
get_guidance_for_waste_type(data, waste_type) ==
    IF waste_type \notin DOMAIN data
    THEN [data |-> data, ret |-> NoneValue]
    ELSE LET guidance == data[waste_type]
             with_main == SetItem(guidance, "main_image", main_image_url(waste_type))
             with_steps ==
                 SetItem(with_main, "step_images",
                         [n \in 1..Len(guidance["steps"]) |-> step_image_url(waste_type, n)])
         IN  [data |-> SetItem(data, waste_type, with_steps), ret |-> with_steps]

\* @guidance_bp.route('/guidance/<waste_type>'), on guidance.py's instance
waste_guidance_view(waste_type) ==
    /\ pc = <<"serving", 0>>
    /\ request = NoneValue
    /\ LET got == get_guidance_for_waste_type(guidance_data["guidance"], waste_type)
           guidance == got.ret
           waste_info == IF waste_type \in DOMAIN got.data
                         THEN got.data[waste_type]
                         ELSE [x \in {} |-> NoneValue]
       IN  /\ guidance_data' = SetItem(guidance_data, "guidance", got.data)
           /\ response' =
                 IF ~Truthy(guidance)
                 THEN [template |-> "404.html", status |-> 404]
                 ELSE [template |-> "waste_guidance.html", status |-> 200,
                       waste_type |-> waste_type, guidance |-> guidance,
                       waste_info |-> waste_info]
    /\ request' = [route |-> "/guidance/<waste_type>", waste_type |-> waste_type]
    /\ calls' = <<>>
    /\ UNCHANGED <<startup_vars, waste_classification_model, wrap_vars, bar_vars, race_vars>>

\* the loop of education() over waste_types[i..], on app.py's instance: the dict
\* afterwards; waste_types_with_guidance holds the very records of the dict
RECURSIVE EducationLoop(_, _)
EducationLoop(data, i) ==
    IF i > Len(waste_types)
    THEN data
    ELSE LET waste_type == waste_types[i]
             got == get_guidance_for_waste_type(data, waste_type)
         IN  IF Truthy(got.ret)
             THEN EducationLoop(
                      SetItem(got.data, waste_type,
                              SetItem(got.ret, "guidance_url", guidance_url(waste_type))),
                      i + 1)
             ELSE EducationLoop(got.data, i + 1)

\* @app.route('/education')
education ==
    /\ pc = <<"serving", 0>>
    /\ request = NoneValue
    /\ LET data == EducationLoop(guidance_data["app"], 1)
       IN  /\ guidance_data' = SetItem(guidance_data, "app", data)
           /\ response' =
                 [template |-> "education.html", status |-> 200,
                  waste_types |->
                      [w \in Range(waste_types) |->
                          IF w \in DOMAIN data
                          THEN data[w]
                          ELSE [guidance_url |-> guidance_url(w)]],
                  education |-> WASTE_EDUCATION]
    /\ request' = [route |-> "/education"]
    /\ calls' = <<>>
    /\ UNCHANGED <<startup_vars, waste_classification_model, wrap_vars, bar_vars, race_vars>>

-----------------------------------------------------------------------------
(* Classification. *)

\* the probabilities a prediction may hold, in hundredths
Levels == {0, 5, 6, 20, 24, 40, 70}

\* sum(v)
Sum(v) ==
    LET partial[n \in 0..Len(v)] == IF n = 0 THEN 0 ELSE v[n] + partial[n - 1]
    IN  partial[Len(v)]

\* predictions[0]: one probability per class, summing to 1
PredictionVectors ==
    {v \in [1..Len(waste_types) -> Levels] : Sum(v) = 100}

\* np.max
Max(v) == CHOOSE m \in Range(v) : \A x \in Range(v) : x <= m

\* np.argmax: the first index of the maximum (0-based in the code, 1-based here)
argmax(v) ==
    LET m == Max(v)
    IN  CHOOSE i \in DOMAIN v : v[i] = m /\ \A j \in 1..(i - 1) : v[j] # m

Permutations1(n) == {s \in [1..n -> 1..n] : \A i, j \in 1..n : s[i] = s[j] => i = j}

\* np.argsort (kind='quicksort', not stable): any order that sorts ascending
argsort(v) ==
    {s \in Permutations1(Len(v)) : \A i \in 1..(Len(v) - 1) : v[s[i]] <= v[s[i + 1]]}

\* what the model may answer for an image, with what np.argsort may answer for it
ModelAnswers ==
    UNION {{<<v, order>> : order \in argsort(v)} : v \in PredictionVectors}

\* s[-3:]
Last3(s) == SubSeq(s, IF Len(s) > 3 THEN Len(s) - 2 ELSE 1, Len(s))

\* s[::-1]
Reversed(s) == [i \in 1..Len(s) |-> s[Len(s) + 1 - i]]

\* s[1:]
Tail1(s) == IF Len(s) = 0 THEN s ELSE SubSeq(s, 2, Len(s))

\* the alternatives comprehension of classify_waste
Alternatives(classes, v, top_indices) ==
    LET Kept(idx) == v[idx] > 5
        kept == SelectSeq(Tail1(top_indices), Kept)
    IN  [k \in 1..Len(kept) |-> [waste_type |-> classes[kept[k]], confidence |-> v[kept[k]]]]

\* `if waste_classification_model is None`
model_check_skipped == FALSE
model_is_none == waste_classification_model = "None"

\* classify_waste(image), called by /classify; `predictions` is what the model
\* answers for the image and `order` what np.argsort answers
classify_waste(predictions, order) ==
    /\ pc = <<"serving", 0>>
    /\ request = NoneValue
    /\ request' = [route |-> "/classify", predictions |-> predictions]
    /\ IF model_is_none
       THEN /\ response' = [error |-> "Model not loaded"]
            /\ calls' = <<>>
            /\ UNCHANGED guidance_data
       ELSE LET classes == waste_types
                predicted_class == classes[argmax(predictions)]
                confidence == Max(predictions)
                top_indices == Reversed(Last3(order))
                got == get_guidance_for_waste_type(guidance_data["app"], predicted_class)
            IN  /\ response' =
                      [waste_type |-> predicted_class,
                       confidence |-> confidence,
                       guidance |-> got.ret,
                       alternatives |-> Alternatives(classes, predictions, top_indices),
                       guidance_url |-> guidance_url(predicted_class)]
                /\ guidance_data' = SetItem(guidance_data, "app", got.data)
                /\ calls' = <<"preprocess_classification_image", "predict", "argmax",
                              "argsort", "get_guidance_for_waste_type", "url_for">>
    /\ UNCHANGED <<startup_vars, waste_classification_model, wrap_vars, bar_vars, race_vars>>

classify ==
    \E answer \in ModelAnswers : classify_waste(answer[1], answer[2])

-----------------------------------------------------------------------------
(* The process once start-up is over. *)

\* ensure_guidance_images over waste_types[i..], from the directory `files`
RECURSIVE EnsureFrom(_, _, _)
EnsureFrom(files, data, i) ==
    IF i > Len(waste_types)
    THEN files
    ELSE EnsureFrom(SaveAll(files, ToSave(files, data, waste_types[i])), data, i + 1)

\* start-up over an empty directory has run; the models loaded or failed to
Init ==
    /\ pc = <<"serving", 0>>
    /\ folder_exists = TRUE
    /\ fs = EnsureFrom([p \in {} |-> OldImage], InitialGuidanceData, 1)
    /\ saved = <<>>
    /\ renders = <<>>
    /\ waste_classification_model \in {"model", "None"}
    /\ guidance_data = [inst \in Range(Instances) |-> InitialGuidanceData]
    /\ Idle

\* the route returns what it rendered and the request is over; the process
\* waits for the next one
return_response ==
    /\ pc = <<"serving", 0>>
    /\ request # NoneValue
    /\ request' = NoneValue
    /\ response' = NoneValue
    /\ calls' = <<>>
    /\ UNCHANGED <<startup_vars, waste_classification_model, guidance_data,
                   wrap_vars, bar_vars, race_vars>>

Next ==
    \/ \E waste_type \in RequestNames : waste_guidance_view(waste_type)
    \/ education
    \/ classify
    \/ return_response

Spec == Init /\ [][Next]_vars

-----------------------------------------------------------------------------
(* _create_step_guidance_image: the word wrap and the progress bar. *)

\* the widths draw.textlength may measure for a word, in pixels
WordWidths == {100, 250, 455, 600}

\* the widths it may measure for a blank
BlankWidths == {5, 10}

\* draw.textlength(line, font=step_font) of a line of words joined by blanks
textlength(line, blank) ==
    LET partial[n \in 0..Len(line)] == IF n = 0 THEN 0 ELSE line[n] + partial[n - 1]
    IN  partial[Len(line)] + (IF Len(line) = 0 THEN 0 ELSE (Len(line) - 1) * blank)

\* the loop `for word in words[1:]` from word i on, then lines.append(current_line)
RECURSIVE WrapFrom(_, _, _, _, _)
WrapFrom(words, blank, i, current_line, lines) ==
    IF i > Len(words)
    THEN Append(lines, current_line)
    ELSE LET test_line == Append(current_line, words[i])
         IN  IF textlength(test_line, blank) < width - 40
             THEN WrapFrom(words, blank, i + 1, test_line, lines)
             ELSE WrapFrom(words, blank, i + 1, <<words[i]>>, Append(lines, current_line))

\* lines, from current_line = words[0]
DropLastLine(words, blank) ==
    LET all == WrapFrom(words, blank, 2, <<words[1]>>, <<>>)
    IN  SubSeq(all, 1, Len(all) - 1)
WordWrap(words, blank) == WrapFrom(words, blank, 2, <<words[1]>>, <<>>)

\* _create_step_guidance_image(step_text, step_num, total_steps, color, waste_type):
\* the layout it computes
_create_step_guidance_image ==
    /\ pc = <<"_create_step_guidance_image", 0>>
    /\ wrap_lines' = WordWrap(wrap_words.words, wrap_words.blank)
    /\ bar_width' = progress_width(bar_args[1], bar_args[2])
    /\ pc' = <<"_create_step_guidance_image", 1>>
    /\ UNCHANGED <<folder_exists, fs, saved, renders, serve_vars, wrap_words, bar_args,
                   race_vars>>

\* any step text of one word or more, any step of any number of steps
InitRender ==
    /\ pc = <<"_create_step_guidance_image", 0>>
    /\ folder_exists = TRUE
    /\ fs = [p \in {} |-> OldImage]
    /\ saved = <<>>
    /\ renders = <<>>
    /\ waste_classification_model = "unset"
    /\ guidance_data = [i \in {} |-> NoneValue]
    /\ request = NoneValue
    /\ response = NoneValue
    /\ calls = <<>>
    /\ \E n \in 1..MaxWords : \E words \in [1..n -> WordWidths] : \E blank \in BlankWidths :
          wrap_words = [words |-> words, blank |-> blank]
    /\ wrap_lines = <<>>
    /\ \E total_steps \in 1..MaxTotalSteps : \E step_num \in 0..total_steps :
          bar_args = <<step_num, total_steps>>
    /\ bar_width = 0
    /\ gen = NoneValue

SpecRender == InitRender /\ [][_create_step_guidance_image]_vars

-----------------------------------------------------------------------------
(* Two WasteGuidance initialisations (guidance.py:291 and app.py:52) running *)
(* ensure_guidance_images over the same, empty directory with their steps    *)
(* interleaved.  Nothing locks the directory: each os.path.exists and each   *)
(* img.save is a step of its own, and a save first opens the file (creating  *)
(* or truncating it) and then writes the image.  `saved` and `renders`, the  *)
(* logs of the sequential start-up, are not kept here.                       *)

\* a file img.save has opened for writing and not yet written
OpenedFile(waste_type) == [kind |-> "opened", waste_type |-> waste_type]

\* the instance's ensure_guidance_images has returned
Finished(inst) == gen[inst].cat > Len(waste_types)

\* the loop of ensure_guidance_images goes on to the next category
NextCategory(pos) == [cat |-> pos.cat + 1, at |-> 0, opened |-> FALSE]

\* if os.path.exists(main_image_path): return
check_main_exists(inst) ==
    /\ pc = <<"racing", 0>>
    /\ ~Finished(inst)
    /\ gen[inst].at = 0
    /\ gen' = [gen EXCEPT ![inst] =
                  IF MainExists(fs, waste_types[@.cat])
                  THEN NextCategory(@)
                  ELSE [@ EXCEPT !.at = 1]]
    /\ UNCHANGED <<startup_vars, serve_vars, wrap_vars, bar_vars>>

\* img.save(path), first half: the file is opened for writing
open_image(inst) ==
    /\ pc = <<"racing", 0>>
    /\ ~Finished(inst)
    /\ gen[inst].at >= 1
    /\ ~gen[inst].opened
    /\ LET waste_type == waste_types[gen[inst].cat]
           imgs == RenderedImages(guidance_data[inst], waste_type)
       IN  fs' = SetItem(fs, imgs[gen[inst].at].path, OpenedFile(waste_type))
    /\ gen' = [gen EXCEPT ![inst].opened = TRUE]
    /\ UNCHANGED <<folder_exists, saved, renders, pc, serve_vars, wrap_vars, bar_vars>>

\* img.save(path), second half: the image is written; then the next step image,
\* or the call returns after the last one
write_image(inst) ==
    /\ pc = <<"racing", 0>>
    /\ ~Finished(inst)
    /\ gen[inst].at >= 1
    /\ gen[inst].opened
    /\ LET waste_type == waste_types[gen[inst].cat]
           imgs == RenderedImages(guidance_data[inst], waste_type)
           n == gen[inst].at
       IN  /\ fs' = SetItem(fs, imgs[n].path, imgs[n].img)
           /\ gen' = [gen EXCEPT ![inst] =
                         IF n = Len(imgs)
                         THEN NextCategory(@)
                         ELSE [cat |-> @.cat, at |-> n + 1, opened |-> FALSE]]
    /\ UNCHANGED <<folder_exists, saved, renders, pc, serve_vars, wrap_vars, bar_vars>>

\* both instances are about to generate, over an empty guidance directory
InitRace ==
    /\ pc = <<"racing", 0>>
    /\ folder_exists = TRUE
    /\ fs = [p \in {} |-> OldImage]
    /\ saved = <<>>
    /\ renders = <<>>
    /\ waste_classification_model = "unset"
    /\ guidance_data = [inst \in Range(Instances) |-> InitialGuidanceData]
    /\ request = NoneValue
    /\ response = NoneValue
    /\ calls = <<>>
    /\ wrap_words = [words |-> <<>>, blank |-> 0]
    /\ wrap_lines = <<>>
    /\ bar_args = <<0, 1>>
    /\ bar_width = 0
    /\ gen = [inst \in Range(Instances) |-> [cat |-> 1, at |-> 0, opened |-> FALSE]]

NextRace ==
    \/ \E inst \in Range(Instances) : check_main_exists(inst)
    \/ \E inst \in Range(Instances) : open_image(inst)
    \/ \E inst \in Range(Instances) : write_image(inst)

SpecRace == InitRace /\ [][NextRace]_vars

-----------------------------------------------------------------------------
(* Properties of classify_waste, checked under Spec. *)

\* a /classify request has been answered with a classification
Classified ==
    /\ "route" \in DOMAIN request
    /\ request.route = "/classify"
    /\ "alternatives" \in DOMAIN response

\* the index of a class in waste_types
ClassIndex(waste_type) == CHOOSE i \in DOMAIN waste_types : waste_types[i] = waste_type

\* C1: the alternatives of a classification never contain the category returned as
\* waste_type, and never an entry whose confidence is <= 0.05, whatever the
\* prediction (ties for the highest probability included).
C1_AlternativesExcludeTop ==
    Classified =>
        \A k \in DOMAIN response.alternatives :
            /\ response.alternatives[k].waste_type # response.waste_type
            /\ response.alternatives[k].confidence > 5

\* C3: with the model not loaded, classify_waste answers {"error": "Model not loaded"}
\* and has done nothing before that: no preprocessing, no predict, no lookup in the
\* catalog; the process is still serving.
C3_ModelNotLoaded ==
    ("route" \in DOMAIN request /\ request.route = "/classify"
        /\ waste_classification_model = "None")
    => /\ response = [error |-> "Model not loaded"]
       /\ calls = <<>>
       /\ pc = <<"serving", 0>>
       /\ \A w \in DOMAIN guidance_data["app"] :
             "main_image" \in DOMAIN guidance_data["app"][w]
                => "guidance_url" \in DOMAIN guidance_data["app"][w]

C3_Witness ==
    /\ "route" \in DOMAIN request
    /\ request.route = "/classify"
    /\ waste_classification_model = "None"
    /\ response = [error |-> "Model not loaded"]
    /\ Max(request.predictions) = 70

\* C5: waste_type is the category of the highest probability and confidence that
\* probability; the alternatives are the categories of the second and third highest
\* probabilities, in descending order, each kept only if its probability is > 0.05.
C5_SecondAndThird ==
    Classified =>
        LET v == request.predictions
            top == ClassIndex(response.waste_type)
            others == DOMAIN v \ {top}
            Entry(i) == [waste_type |-> waste_types[i], confidence |-> v[i]]
            Kept(e) == e.confidence > 5
        IN  /\ \A i \in DOMAIN v : v[i] <= v[top]
            /\ response.confidence = v[top]
            /\ \E j \in others : \E k \in others \ {j} :
                  /\ v[j] >= v[k]
                  /\ \A m \in others \ {j, k} : v[m] <= v[k]
                  /\ response.alternatives = SelectSeq(<<Entry(j), Entry(k)>>, Kept)

-----------------------------------------------------------------------------
(* Properties of the catalog and its lookup, checked under Spec. *)

\* a /guidance/<waste_type> request has been answered
Viewed ==
    /\ "route" \in DOMAIN request
    /\ request.route = "/guidance/<waste_type>"

\* the step is a request for /guidance/<waste_type>, answered
ViewStep ==
    /\ request = NoneValue
    /\ "route" \in DOMAIN request'
    /\ request'.route = "/guidance/<waste_type>"

\* C4: a name that is no key of the catalog gets the not-found value: the view
\* answers with the 404 page and the catalog is as it was; a name that is a key gets
\* that category's record, with the steps, colors and icon of the table.
C4_UnknownIsNotFound ==
    [][ViewStep =>
          LET w == request'.waste_type
          IN  IF w \notin DOMAIN InitialGuidanceData
              THEN /\ response' = [template |-> "404.html", status |-> 404]
                   /\ guidance_data' = guidance_data
              ELSE /\ response'.status = 200
                   /\ response'.guidance = guidance_data'["guidance"][w]
                   /\ DOMAIN guidance_data'["guidance"] = DOMAIN InitialGuidanceData
                   /\ \A f \in {"steps", "colors", "icon"} :
                         response'.guidance[f] = InitialGuidanceData[w][f]]_vars

C4_Witness ==
    /\ Viewed
    /\ request.waste_type = <<"Plastic", "_", "Waste">>
    /\ response.status = 404
    /\ "main_image" \in DOMAIN guidance_data["guidance"][<<"Plastic", " ", "Waste">>]

\* the files of the guidance directory that hold an image of a category
ImagesOf(waste_type) == {p \in DOMAIN fs : fs[p].waste_type = waste_type}

\* C6: the files generated for a category are <category, blanks as underscores>_main.png
\* and ..._step1.png to ..._step<len(steps)>.png in the guidance directory, and the
\* main_image and step_images paths of the lookup name exactly these files, the
\* step paths in step order.
C6_PathsNameTheFiles ==
    (Viewed /\ response.status = 200) =>
        LET w == request.waste_type
            g == response.guidance
            n == Len(g["steps"])
            main == StaticFile(g["main_image"])
            step == [i \in 1..Len(g["step_images"]) |-> StaticFile(g["step_images"][i])]
            stem == [i \in DOMAIN w |-> IF w[i] = " " THEN "_" ELSE w[i]]
        IN  /\ Len(step) = n
            /\ ImagesOf(w) = {main} \cup Range(step)
            /\ fs[main].kind = "main"
            /\ \A i \in 1..n : fs[step[i]].kind = "step" /\ fs[step[i]].step_num = i
            /\ main = <<"static", "/", "guidance", "/">> \o stem \o <<"_main.png">>
            /\ \A i \in 1..n :
                  step[i] = <<"static", "/", "guidance", "/">> \o stem
                                \o <<"_step", ToString(i), ".png">>
            /\ w = <<"Plastic", " ", "Waste">> =>
                  /\ main = <<"static", "/", "guidance", "/", "Plastic", "_", "Waste", "_main.png">>
                  /\ step[4] = <<"static", "/", "guidance", "/", "Plastic", "_", "Waste",
                                 "_step", "4", ".png">>

C6_Witness ==
    /\ Viewed
    /\ response.status = 200
    /\ request.waste_type = <<"Plastic", " ", "Waste">>
    /\ Len(response.guidance["step_images"]) = 4
    /\ Cardinality(ImagesOf(request.waste_type)) = 5

\* C8: after any requests every record of guidance_data equals the record built from
\* the literal table (same fields, same steps, colors and icon), and the set of
\* categories is unchanged.
C8_RecordsImmutable ==
    \A inst \in DOMAIN guidance_data : guidance_data[inst] = InitialGuidanceData

-----------------------------------------------------------------------------
(* Properties of start-up, checked under SpecStartup. *)

\* the main image and every step image of a category are in the directory
Complete(files, waste_type) ==
    /\ main_image_path(waste_type) \in DOMAIN files
    /\ \A n \in 1..Len(InitialGuidanceData[waste_type]["steps"]) :
          step_image_path(waste_type, n) \in DOMAIN files

\* a WasteGuidance has been constructed: ensure_guidance_images has returned
Constructed == pc[1] \in {"app.py:43", "app.py:52", "serving"}

\* no category has its main image in the directory without all its step images
NoMainWithoutSteps ==
    \A w \in Range(waste_types) :
        main_image_path(w) \in DOMAIN fs => Complete(fs, w)

GuardedCall ==
    /\ pc[2] \in 1..Len(waste_types)
    /\ pc' # pc
    /\ main_image_path(waste_types[pc[2]]) \in DOMAIN fs

\* C7: when the main image of a category exists, _generate_guidance_images renders
\* nothing and creates, overwrites or deletes no file, whatever the steps are; and
\* the second run of ensure_guidance_images leaves the directory as it was.
C7_GuardBeforeRendering ==
    [][/\ GuardedCall => (renders' = <<>> /\ fs' = fs /\ saved' = saved)
       /\ pc[1] = "app.py:52" => fs' = fs]_vars

C7_Witness ==
    /\ pc[1] = "guidance.py:291"
    /\ pc[2] >= 2
    /\ renders = <<>>
    /\ LET w == waste_types[pc[2] - 1]
       IN  /\ main_image_path(w) \in DOMAIN fs
           /\ fs[main_image_path(w)] = OldImage
           /\ step_image_path(w, 1) \notin DOMAIN fs
           /\ step_image_path(w, 5) \in DOMAIN fs

-----------------------------------------------------------------------------
(* Properties of _create_step_guidance_image, checked under SpecRender. *)

Rendered == pc = <<"_create_step_guidance_image", 1>>

\* the words of the lines, read in order
RECURSIVE Flatten(_)
Flatten(lines) == IF lines = <<>> THEN <<>> ELSE Head(lines) \o Flatten(Tail(lines))

\* C9: every line of the word wrap measures at most width - 40 = 560, except a line
\* of one single word that is itself wider, which stands alone and whole; and the
\* words of the lines, read in order, are the words of the step text.
C9_WordWrap ==
    Rendered =>
        /\ \A i \in DOMAIN wrap_lines :
              LET line == wrap_lines[i]
              IN  /\ Len(line) >= 1
                  /\ \/ textlength(line, wrap_words.blank) <= 560
                     \/ Len(line) = 1 /\ line[1] > 560
        /\ Flatten(wrap_lines) = wrap_words.words

C9_Witness ==
    /\ Rendered
    /\ Len(wrap_lines) = 3
    /\ wrap_lines[1] = <<100, 250>>
    /\ wrap_lines[2] = <<600>>
    /\ wrap_lines[3] = <<455>>
    /\ wrap_words.blank = 5

\* C10 as claimed: the filled width of the progress bar is
\* (step_num / total_steps) * (width - 100) rounded to the nearest integer.
C10_RoundedToNearest ==
    Rendered =>
        LET step_num == bar_args[1]
            total_steps == bar_args[2]
        IN  /\ 2 * total_steps * bar_width <= 2 * step_num * 500 + total_steps
            /\ 2 * step_num * 500 - total_steps <= 2 * total_steps * bar_width

\* C10 as amended: the filled width is (step_num / total_steps) * (width - 100)
\* truncated to an integer; it is 500 when step_num = total_steps and 0 when
\* step_num = 0.
C10_Truncated ==
    Rendered =>
        LET step_num == bar_args[1]
            total_steps == bar_args[2]
        IN  /\ total_steps * bar_width <= step_num * 500
            /\ step_num * 500 < total_steps * (bar_width + 1)
            /\ step_num = total_steps => bar_width = 500
            /\ step_num = 0 => bar_width = 0

C10_Witness ==
    /\ Rendered
    /\ bar_args = <<1, 3>>
    /\ bar_width = 166

-----------------------------------------------------------------------------
(* Properties of two interleaved generations, checked under SpecRace. *)

BothFinished == \A inst \in Range(Instances) : Finished(inst)

\* the directory after a single sequential generation over an empty directory
SequentialResult == EnsureFrom([p \in {} |-> OldImage], InitialGuidanceData, 1)

\* C11: the race of two interleaved first-time generations is benign: once both
\* have finished, the directory holds the same files with the same contents as
\* after a single sequential generation (every main image and all its step images),
\* and no instance that has finished finds a main image present while a step image
\* of that category is missing.
C11_BenignRace ==
    /\ BothFinished => fs = SequentialResult
    /\ \A inst \in Range(Instances) :
          Finished(inst) =>
              \A w \in Range(waste_types) : MainExists(fs, w) => Complete(fs, w)

====
